---- MODULE Spec2Model ----
(***************************************************************************)
(* SmartConfigService (src/src/smart-config.service.ts): the resolution of *)
(* the network configuration from the options, the three resource          *)
(* accessors with their fallback to the remote registry, the consensus     *)
(* threshold and the accessors that read the configuration store; and     *)
(* SmartConfigModule.forRootAsync (src/src/smart-config.module.ts), which  *)
(* registers the provider of the service's options.                        *)
(*                                                                         *)
(* A call is a record of `calls`; a promise is its state (pending,         *)
(* fulfilled, rejected).  An accessor runs up to its first await in one    *)
(* step (JavaScript runs to completion), the HTTP collaborator answers a   *)
(* request in a step of its own, and the continuation after the await is   *)
(* a third step, so that calls in flight interleave at their suspension    *)
(* points.                                                                 *)
(***************************************************************************)
EXTENDS Integers, Sequences, FiniteSets, TLC

VARIABLES
    asyncOptions,       \* the options SmartConfigModule.forRootAsync was given
    dynamicModule,      \* the DynamicModule forRootAsync returned
    bootstrap,          \* the container's instantiation of 'smartConfigOptions'
    smartConfigOptions, \* the injected 'smartConfigOptions' (read-only)
    configService,      \* the configuration store: key -> value or undefined
    registry,           \* the remote registry: url -> HTTP response
    httpService,        \* the requests issued through httpService.get, in order
    calls               \* the accessor calls made so far, in order

vars == <<asyncOptions, dynamicModule, bootstrap,
          smartConfigOptions, configService, registry, httpService, calls>>

----------------------------------------------------------------------------
(* Bounds of the model. *)

MaxCalls == 2

MaxNodes == 10

----------------------------------------------------------------------------
(* JavaScript values.  Every value is a record tagged by its type, so that  *)
(* undefined, null, a string and an object are four different things.      *)

Undefined == [t |-> "undefined"]

Null == [t |-> "null"]

Str(s) == [t |-> "string", s |-> s]

Num(n) == [t |-> "number", n |-> n]

NaN == [t |-> "number", nan |-> TRUE]

Array(items) == [t |-> "array", items |-> items]

Error(message) == [t |-> "Error", message |-> message]

TypeError(message) == [t |-> "TypeError", message |-> message]

\* Mutant: only null is falsy.
Truthy_strictNull(v) == v.t # "null"

\* if (v): undefined and null are falsy, objects and arrays are truthy.
Truthy(v) == v.t \notin {"undefined", "null"}

\* The completion of an evaluation: a value returned or an error thrown.
Return(v) == [thrown |-> FALSE, v |-> v]

Throw(e) == [thrown |-> TRUE, v |-> e]

\* obj.field: a TypeError on undefined and null, undefined for a field the
\* object does not hold.
GetField(obj, field) ==
    IF obj.t \in {"undefined", "null"}
    THEN Throw(TypeError("Cannot read properties of " \o obj.t))
    ELSE IF field \in DOMAIN obj THEN Return(obj[field]) ELSE Return(Undefined)

----------------------------------------------------------------------------
(* The options: ISmartNetwork.INetwork.IConfig.IOptions. *)

Environments == {"testnet", "mainnet"}

Networks == {"public", "private"}

ClientEnvironments == {"testnet", "local", "mainnet"}

NodeList(name, n) == [i \in 1..n |-> [t |-> "object", id |-> i, of |-> name]]

\* A table {nodes, utilities, fees}; `name` marks where the data comes from.
NetworkTable(name, n) ==
    [t         |-> "object",
     nodes     |-> Array(NodeList(name, n)),
     utilities |-> Array(<<[t |-> "object", utility |-> name]>>),
     fees      |-> [t |-> "object", schedule |-> name]]

TestnetNodes == 3

LocalNodes == 1

MainnetNodes == 4

FullCustomNetwork ==
    [t       |-> "object",
     testnet |-> NetworkTable("custom.testnet", TestnetNodes),
     local   |-> NetworkTable("custom.local", LocalNodes),
     mainnet |-> NetworkTable("custom.mainnet", MainnetNodes)]

\* customNetwork is optional, and so is each of its three tables.
CustomNetworks ==
    {Undefined, FullCustomNetwork}
        \cup {[FullCustomNetwork EXCEPT ![k] = Undefined] :
                k \in {"testnet", "local", "mainnet"}}

RegistryUrl == "http://registry"

\* smartRegistryUrl is optional; 'local' stands for "no remote registry".
SmartRegistryUrls == {Undefined, Str("local"), Str(RegistryUrl)}

Options ==
    [environment        : Environments,
     network            : Networks,
     client_environment : ClientEnvironments,
     customNetwork      : CustomNetworks,
     smartRegistryUrl   : SmartRegistryUrls]

----------------------------------------------------------------------------
(* getNetworkConfig *)

\* Mutant: the mainnet branch forgets to look at the network type.
getNetworkConfig_ignoresNetwork(options) ==
    IF options.environment = "testnet"
    THEN IF options.network = "public"
         THEN Return(Null)
         ELSE IF options.network = "private"
         THEN IF options.client_environment = "testnet"
              THEN GetField(options.customNetwork, "testnet")
              ELSE GetField(options.customNetwork, "local")
         ELSE Return(Null)
    ELSE IF options.environment = "mainnet"
    THEN GetField(options.customNetwork, "mainnet")
    ELSE Return(Null)

\* Mutant: a private testnet selects the table of its client environment.
getNetworkConfig_byClient(options) ==
    IF options.environment = "testnet"
    THEN IF options.network = "public"
         THEN Return(Null)
         ELSE IF options.network = "private"
         THEN GetField(options.customNetwork, options.client_environment)
         ELSE Return(Null)
    ELSE IF options.environment = "mainnet"
    THEN IF options.network = "private"
         THEN GetField(options.customNetwork, "mainnet")
         ELSE Return(Null)
    ELSE Return(Null)

getNetworkConfig(options) ==
    IF options.environment = "testnet"
    THEN IF options.network = "public"
         THEN Return(Null)
         ELSE IF options.network = "private"
         THEN IF options.client_environment = "testnet"
              THEN GetField(options.customNetwork, "testnet")
              ELSE GetField(options.customNetwork, "local")
         ELSE Return(Null)
    ELSE IF options.environment = "mainnet"
    THEN IF options.network = "private"
         THEN GetField(options.customNetwork, "mainnet")
         ELSE Return(Null)
    ELSE Return(Null)

----------------------------------------------------------------------------
(* The HTTP collaborator and the remote registry. *)

Kinds == {"nodes", "utilities", "fees"}

Path(kind) == "/network/" \o kind

OkResponse(data) == [status |-> 200, data |-> data]

ErrorResponse(status) == [status |-> status, data |-> Null]

RegistryNodes == 5

\* The registry serving the three resources, with n nodes.
RegistryServing(n) ==
    [u \in {RegistryUrl \o Path(k) : k \in Kinds} |->
        IF u = RegistryUrl \o Path("nodes")
        THEN OkResponse(Array(NodeList("registry", n)))
        ELSE IF u = RegistryUrl \o Path("utilities")
        THEN OkResponse(Array(<<[t |-> "object", utility |-> "registry"]>>))
        ELSE OkResponse([t |-> "object", schedule |-> "registry"])]

\* A registry that serves the nodes, fails on the utilities and has no fees.
RegistryDegraded ==
    [u \in {RegistryUrl \o Path(k) : k \in {"nodes", "utilities"}} |->
        IF u = RegistryUrl \o Path("nodes")
        THEN OkResponse(Array(NodeList("registry", RegistryNodes)))
        ELSE ErrorResponse(500)]

Registries == {RegistryServing(RegistryNodes), RegistryDegraded}

\* What the registry answers to GET url.
Answer(url) == IF url \in DOMAIN registry THEN registry[url] ELSE ErrorResponse(404)

NetworkError == Error("connect ECONNREFUSED")

StatusError(status) ==
    [t |-> "Error", message |-> "Request failed", status |-> status]

\* httpService.get(url): one more request in flight.
HttpGet(rs, url) ==
    Append(rs, [method |-> "GET", url |-> url, state |-> "inflight",
                response |-> Undefined, error |-> Undefined])

\* The collaborator completes request r: a transport error, or the
\* registry's answer, which is a failure unless its status is 2xx.
HttpRespond(r) ==
    /\ r \in 1..Len(httpService)
    /\ httpService[r].state = "inflight"
    /\ \/ httpService' = [httpService EXCEPT ![r].state = "failed",
                                             ![r].error = NetworkError]
       \/ LET a == Answer(httpService[r].url)
          IN  IF a.status \in 200..299
              THEN httpService' = [httpService EXCEPT ![r].state = "ok",
                                                      ![r].response = a]
              ELSE httpService' = [httpService EXCEPT ![r].state = "failed",
                                                      ![r].error = StatusError(a.status)]
    /\ UNCHANGED <<asyncOptions, dynamicModule, bootstrap,
                   smartConfigOptions, configService, registry, calls>>

----------------------------------------------------------------------------
(* Calls and promises. *)

\* A call that has not settled; req is the request it awaits, inner the call
\* it awaits (0: none).
NewCall(op) ==
    [op |-> op, state |-> "pending", value |-> Undefined, settles |-> 0,
     req |-> 0, inner |-> 0, local |-> Undefined]

\* resolve(v) and reject(e) of the call's promise.
Resolve(c, v) == [c EXCEPT !.state = "fulfilled", !.value = v, !.settles = @ + 1]

Reject(c, e) == [c EXCEPT !.state = "rejected", !.value = e, !.settles = @ + 1]

\* A synchronous accessor returns or throws.
Returned(op, v) == [NewCall(op) EXCEPT !.state = "returned", !.value = v]

Thrown(op, e) == [NewCall(op) EXCEPT !.state = "thrown", !.value = e]

\* The calls the application made: every call but the getNodes calls that
\* getThreshold makes itself.  MaxCalls bounds these.
TopLevelCalls ==
    Len(calls) - Cardinality({i \in 1..Len(calls) : calls[i].inner # 0})

----------------------------------------------------------------------------
(* getNodes, getUtilities, getFees *)

\* Mutant: the url is compared with undefined only, not with 'local'.
StartResource_noLocalCheck(op, kind, path, cs, rs) ==
    LET c             == NewCall(op)
        networkConfig == getNetworkConfig(smartConfigOptions)
        url           == smartConfigOptions.smartRegistryUrl
    IN  IF networkConfig.thrown
        THEN [calls |-> Append(cs, Reject(c, networkConfig.v)), requests |-> rs]
        ELSE IF Truthy(networkConfig.v)
        THEN LET field == GetField(networkConfig.v, kind)
             IN  [calls |-> Append(cs, Resolve(c, field.v)), requests |-> rs]
        ELSE IF url # Undefined
        THEN [calls    |-> Append(cs, [c EXCEPT !.req = Len(rs) + 1]),
              requests |-> HttpGet(rs, url.s \o path)]
        ELSE [calls |-> Append(cs, Reject(c, Error("Base URL not set"))),
              requests |-> rs]

\* Mutant: a body fetched before is served again without a request.
StartResource_cached(op, kind, path, cs, rs) ==
    LET c             == NewCall(op)
        networkConfig == getNetworkConfig(smartConfigOptions)
        url           == smartConfigOptions.smartRegistryUrl
    IN  IF networkConfig.thrown
        THEN [calls |-> Append(cs, Reject(c, networkConfig.v)), requests |-> rs]
        ELSE IF Truthy(networkConfig.v)
        THEN LET field == GetField(networkConfig.v, kind)
             IN  [calls |-> Append(cs, Resolve(c, field.v)), requests |-> rs]
        ELSE IF url # Undefined /\ url # Str("local")
        THEN IF \E r \in 1..Len(rs) : rs[r].url = url.s \o path /\ rs[r].state = "ok"
             THEN LET r == CHOOSE r \in 1..Len(rs) :
                               rs[r].url = url.s \o path /\ rs[r].state = "ok"
                  IN  [calls    |-> Append(cs, Resolve(c, rs[r].response.data)),
                       requests |-> rs]
             ELSE [calls    |-> Append(cs, [c EXCEPT !.req = Len(rs) + 1]),
                   requests |-> HttpGet(rs, url.s \o path)]
        ELSE [calls |-> Append(cs, Reject(c, Error("Base URL not set"))),
              requests |-> rs]

\* Mutant: a response fetched before is kept and served again, and it is the
\* response that is served, not its body.
StartResource_cachedResponse(op, kind, path, cs, rs) ==
    LET c             == NewCall(op)
        networkConfig == getNetworkConfig(smartConfigOptions)
        url           == smartConfigOptions.smartRegistryUrl
    IN  IF networkConfig.thrown
        THEN [calls |-> Append(cs, Reject(c, networkConfig.v)), requests |-> rs]
        ELSE IF Truthy(networkConfig.v)
        THEN LET field == GetField(networkConfig.v, kind)
             IN  [calls |-> Append(cs, Resolve(c, field.v)), requests |-> rs]
        ELSE IF url # Undefined /\ url # Str("local")
        THEN IF \E r \in 1..Len(rs) : rs[r].url = url.s \o path /\ rs[r].state = "ok"
             THEN LET r == CHOOSE r \in 1..Len(rs) :
                               rs[r].url = url.s \o path /\ rs[r].state = "ok"
                  IN  [calls    |-> Append(cs, Resolve(c,
                                       [t |-> "object",
                                        status |-> rs[r].response.status,
                                        data |-> rs[r].response.data])),
                       requests |-> rs]
             ELSE [calls    |-> Append(cs, [c EXCEPT !.req = Len(rs) + 1]),
                   requests |-> HttpGet(rs, url.s \o path)]
        ELSE [calls |-> Append(cs, Reject(c, Error("Base URL not set"))),
              requests |-> rs]

\* Mutant: while a request is in flight no second one is issued: the call
\* awaits the request in flight, whatever its url.
StartResource_coalesced(op, kind, path, cs, rs) ==
    LET c             == NewCall(op)
        networkConfig == getNetworkConfig(smartConfigOptions)
        url           == smartConfigOptions.smartRegistryUrl
    IN  IF networkConfig.thrown
        THEN [calls |-> Append(cs, Reject(c, networkConfig.v)), requests |-> rs]
        ELSE IF Truthy(networkConfig.v)
        THEN LET field == GetField(networkConfig.v, kind)
             IN  [calls |-> Append(cs, Resolve(c, field.v)), requests |-> rs]
        ELSE IF url # Undefined /\ url # Str("local")
        THEN IF \E r \in 1..Len(rs) : rs[r].state = "inflight"
             THEN [calls    |-> Append(cs, [c EXCEPT !.req =
                                    CHOOSE r \in 1..Len(rs) : rs[r].state = "inflight"]),
                   requests |-> rs]
             ELSE [calls    |-> Append(cs, [c EXCEPT !.req = Len(rs) + 1]),
                   requests |-> HttpGet(rs, url.s \o path)]
        ELSE [calls |-> Append(cs, Reject(c, Error("Base URL not set"))),
              requests |-> rs]

\* The executor of the promise up to its await, after which the call has
\* settled or awaits the request it issued.  cs and rs are the calls and the
\* requests before the call.
StartResource(op, kind, path, cs, rs) ==
    LET c             == NewCall(op)
        networkConfig == getNetworkConfig(smartConfigOptions)
        url           == smartConfigOptions.smartRegistryUrl
    IN  IF networkConfig.thrown
        THEN [calls |-> Append(cs, Reject(c, networkConfig.v)), requests |-> rs]
        ELSE IF Truthy(networkConfig.v)
        THEN LET field == GetField(networkConfig.v, kind)
             IN  [calls |-> Append(cs, Resolve(c, field.v)), requests |-> rs]
        ELSE IF url # Undefined /\ url # Str("local")
        THEN [calls    |-> Append(cs, [c EXCEPT !.req = Len(rs) + 1]),
              requests |-> HttpGet(rs, url.s \o path)]
        ELSE [calls |-> Append(cs, Reject(c, Error("Base URL not set"))),
              requests |-> rs]

getNodesStart(cs, rs) == StartResource("getNodes", "nodes", "/network/nodes", cs, rs)

\* Mutant: getUtilities was copied from getNodes and still reads the nodes.
getUtilitiesStart_nodesField(cs, rs) ==
    StartResource("getUtilities", "nodes", "/network/utilities", cs, rs)

getUtilitiesStart(cs, rs) ==
    StartResource("getUtilities", "utilities", "/network/utilities", cs, rs)

\* Mutant: getFees was copied from getNodes and still fetches the nodes.
getFeesStart_nodesPath(cs, rs) ==
    StartResource("getFees", "fees", "/network/nodes", cs, rs)

getFeesStart(cs, rs) == StartResource("getFees", "fees", "/network/fees", cs, rs)

getNodes ==
    /\ TopLevelCalls < MaxCalls
    /\ LET s == getNodesStart(calls, httpService)
       IN  calls' = s.calls /\ httpService' = s.requests
    /\ UNCHANGED <<asyncOptions, dynamicModule, bootstrap,
                   smartConfigOptions, configService, registry>>

getUtilities ==
    /\ TopLevelCalls < MaxCalls
    /\ LET s == getUtilitiesStart(calls, httpService)
       IN  calls' = s.calls /\ httpService' = s.requests
    /\ UNCHANGED <<asyncOptions, dynamicModule, bootstrap,
                   smartConfigOptions, configService, registry>>

getFees ==
    /\ TopLevelCalls < MaxCalls
    /\ LET s == getFeesStart(calls, httpService)
       IN  calls' = s.calls /\ httpService' = s.requests
    /\ UNCHANGED <<asyncOptions, dynamicModule, bootstrap,
                   smartConfigOptions, configService, registry>>

\* Mutant: a failed fetch is swallowed and the call resolves with nothing.
ResumeAfterGet_swallowed(c) ==
    IF httpService[c.req].state = "ok"
    THEN Resolve(c, httpService[c.req].response.data)
    ELSE Resolve(c, Undefined)

\* The continuation after `await this.httpService.get(...).toPromise()`:
\* resolve(response.data), or the catch block's reject(error).
ResumeAfterGet(c) ==
    IF httpService[c.req].state = "ok"
    THEN Resolve(c, httpService[c.req].response.data)
    ELSE Reject(c, httpService[c.req].error)

Resume(i) ==
    /\ i \in 1..Len(calls)
    /\ calls[i].state = "pending"
    /\ calls[i].req # 0
    /\ httpService[calls[i].req].state # "inflight"
    /\ calls' = [calls EXCEPT ![i] = ResumeAfterGet(calls[i])]
    /\ UNCHANGED <<asyncOptions, dynamicModule, bootstrap,
                   smartConfigOptions, configService, registry, httpService>>

----------------------------------------------------------------------------
(* The configuration store: ConfigService. *)

Keys ==
    {"smartConfig.environment", "smartConfig.client_environment", "issuer",
     "client.operator", "mirrorNode", "clusterConfig.threshold"}

\* The store holding every key; client is the client environment it names,
\* p the threshold percentage.
FullStore(client, p) ==
    [k \in Keys |->
        CASE k = "smartConfig.environment"        -> Str("testnet")
          [] k = "smartConfig.client_environment" -> Str(client)
          [] k = "issuer"     -> [t |-> "object", issuer |-> "0.0.1001"]
          [] k = "client.operator" -> [t |-> "object", accountId |-> "0.0.1002"]
          [] k = "mirrorNode" ->
                [t |-> "object", url |-> Str("https://mirror"),
                 apiKey |-> Str("key"), grpc |-> Str("mirror:443")]
          [] OTHER -> Num(p)]

\* The store holding the keys of `present` only.
StoreWith(present, client, p) ==
    [k \in Keys |-> IF k \in present THEN FullStore(client, p)[k] ELSE Undefined]

\* configService.getOrThrow(key): throws when the key holds no value.
getOrThrow(store, key) ==
    IF store[key] = Undefined
    THEN Throw(TypeError("Configuration key \"" \o key \o "\" does not exist"))
    ELSE Return(store[key])

\* LedgerId.fromString of @hashgraph/sdk: the ledger of a known name, and a
\* failure for any other string.
LedgerNames == {"mainnet", "testnet", "previewnet", "local-node"}

LedgerIdFromString(v) ==
    IF v.t = "string" /\ v.s \in LedgerNames
    THEN Return([t |-> "LedgerId", ledger |-> v.s])
    ELSE Throw(Error("unknown ledger id"))

\* A synchronous accessor's call, from the completion of its body.
SyncCall(op, completion) ==
    IF completion.thrown THEN Thrown(op, completion.v) ELSE Returned(op, completion.v)

\* An async function without await settles its promise with the body's
\* completion.
AsyncCall(op, completion) ==
    IF completion.thrown
    THEN Reject(NewCall(op), completion.v)
    ELSE Resolve(NewCall(op), completion.v)

getEnvironmentBody == getOrThrow(configService, "smartConfig.environment")

getEnvironment ==
    /\ TopLevelCalls < MaxCalls
    /\ calls' = Append(calls, SyncCall("getEnvironment", getEnvironmentBody))
    /\ UNCHANGED <<asyncOptions, dynamicModule, bootstrap,
                   smartConfigOptions, configService, registry, httpService>>

getClientEnvironmentBody ==
    LET s == getOrThrow(configService, "smartConfig.client_environment")
    IN  IF s.thrown THEN s ELSE LedgerIdFromString(s.v)

getClientEnvironment ==
    /\ TopLevelCalls < MaxCalls
    /\ calls' = Append(calls, SyncCall("getClientEnvironment", getClientEnvironmentBody))
    /\ UNCHANGED <<asyncOptions, dynamicModule, bootstrap,
                   smartConfigOptions, configService, registry, httpService>>

getIssuerBody == getOrThrow(configService, "issuer")

getIssuer ==
    /\ TopLevelCalls < MaxCalls
    /\ calls' = Append(calls, AsyncCall("getIssuer", getIssuerBody))
    /\ UNCHANGED <<asyncOptions, dynamicModule, bootstrap,
                   smartConfigOptions, configService, registry, httpService>>

getOperatorBody == getOrThrow(configService, "client.operator")

getOperator ==
    /\ TopLevelCalls < MaxCalls
    /\ calls' = Append(calls, SyncCall("getOperator", getOperatorBody))
    /\ UNCHANGED <<asyncOptions, dynamicModule, bootstrap,
                   smartConfigOptions, configService, registry, httpService>>

\* Mutant: the missing key is not caught.
getMirrorNodeBody_uncaught == getOrThrow(configService, "mirrorNode")

NullMirrorNode == [t |-> "object", url |-> Null, apiKey |-> Null, grpc |-> Null]

\* try { return getOrThrow('mirrorNode') } catch { return the null record }
getMirrorNodeBody ==
    LET mirrorNode == getOrThrow(configService, "mirrorNode")
    IN  IF mirrorNode.thrown THEN Return(NullMirrorNode) ELSE mirrorNode

getMirrorNode ==
    /\ TopLevelCalls < MaxCalls
    /\ calls' = Append(calls, SyncCall("getMirrorNode", getMirrorNodeBody))
    /\ UNCHANGED <<asyncOptions, dynamicModule, bootstrap,
                   smartConfigOptions, configService, registry, httpService>>

----------------------------------------------------------------------------
(* getThreshold *)

Percent == 100

\* Mutant: the quotient is rounded down.
MathCeil_floor(a, b) == a \div b

\* Math.ceil(a / b) for an integer a and b > 0.  The quotient of two integers
\* below 2^53 is correctly rounded, so it is an integer exactly when b
\* divides a, and lies strictly between two integers otherwise.
MathCeil(a, b) == IF a % b = 0 THEN a \div b ELSE (a \div b) + 1

\* nodes.length
Length(nodes) ==
    IF nodes.t = "array" THEN Return(Num(Len(nodes.items))) ELSE GetField(nodes, "length")

\* Math.ceil((nodes.length * thresholdValue) / 100)
ThresholdOf(nodes, thresholdValue) ==
    LET length == Length(nodes)
    IN  IF length.thrown THEN length
        ELSE IF length.v.t = "number" /\ "n" \in DOMAIN length.v
                /\ thresholdValue.t = "number" /\ "n" \in DOMAIN thresholdValue
        THEN Return(Num(MathCeil(length.v.n * thresholdValue.n, Percent)))
        ELSE Return(NaN)

\* Mutant: getNodes() is started first and the threshold is read after it.
getThreshold_nodesFirst ==
    LET thresholdValue == getOrThrow(configService, "clusterConfig.threshold")
        c              == NewCall("getThreshold")
        outer          == [c EXCEPT !.inner = Len(calls) + 2]
        s              == getNodesStart(Append(calls, outer), httpService)
    IN  /\ TopLevelCalls < MaxCalls
        /\ calls' = [s.calls EXCEPT ![Len(calls) + 1] =
                        IF thresholdValue.thrown
                        THEN Reject(@, thresholdValue.v)
                        ELSE [@ EXCEPT !.local = thresholdValue.v]]
        /\ httpService' = s.requests
        /\ UNCHANGED <<asyncOptions, dynamicModule, bootstrap,
                       smartConfigOptions, configService, registry>>

\* getThreshold up to its await: the threshold is read, then getNodes() runs
\* up to its own await, and the call awaits the promise getNodes returned.
getThreshold ==
    LET thresholdValue == getOrThrow(configService, "clusterConfig.threshold")
        c              == NewCall("getThreshold")
    IN  IF thresholdValue.thrown
        THEN /\ TopLevelCalls < MaxCalls
             /\ calls' = Append(calls, Reject(c, thresholdValue.v))
             /\ UNCHANGED <<asyncOptions, dynamicModule, bootstrap,
                            smartConfigOptions, configService, registry, httpService>>
        ELSE /\ TopLevelCalls < MaxCalls
             /\ LET outer == [c EXCEPT !.inner = Len(calls) + 2,
                                       !.local = thresholdValue.v]
                    s     == getNodesStart(Append(calls, outer), httpService)
                IN  calls' = s.calls /\ httpService' = s.requests
             /\ UNCHANGED <<asyncOptions, dynamicModule, bootstrap,
                            smartConfigOptions, configService, registry>>

\* Mutant: a failed node resolution counts as no nodes.
ResumeAfterNodes_noNodes(c, nodes) ==
    IF nodes.state = "rejected"
    THEN Resolve(c, Num(0))
    ELSE LET threshold == ThresholdOf(nodes.value, c.local)
         IN  IF threshold.thrown THEN Reject(c, threshold.v) ELSE Resolve(c, threshold.v)

\* The continuation after `await this.getNodes()`.
ResumeAfterNodes(c, nodes) ==
    IF nodes.state = "rejected"
    THEN Reject(c, nodes.value)
    ELSE LET threshold == ThresholdOf(nodes.value, c.local)
         IN  IF threshold.thrown THEN Reject(c, threshold.v) ELSE Resolve(c, threshold.v)

ResumeThreshold(i) ==
    /\ i \in 1..Len(calls)
    /\ calls[i].state = "pending"
    /\ calls[i].inner # 0
    /\ calls[calls[i].inner].state # "pending"
    /\ calls' = [calls EXCEPT ![i] = ResumeAfterNodes(calls[i], calls[calls[i].inner])]
    /\ UNCHANGED <<asyncOptions, dynamicModule, bootstrap,
                   smartConfigOptions, configService, registry, httpService>>

----------------------------------------------------------------------------
(* SmartConfigModule.forRootAsync (src/src/smart-config.module.ts) and the   *)
(* instantiation of the factory provider it registers.                      *)

Function(name) == [t |-> "function", name |-> name]

Class(name) == [t |-> "class", name |-> name]

\* The injection tokens the strategies of the README name.
Tokens == {"ConfigService", "YourExistingConfigFactory"}

\* useFactory: () => ({...}), and (configService) => ({... configService.get(..) ...}).
Factories == {Function("static"), Function("fromConfig")}

\* SmartConfigModuleAsyncOptions: every field is optional.
AsyncOptions ==
    [imports     : {Undefined, Array(<<"ConfigModule">>)},
     useExisting : {Undefined, Array(<<"YourExistingConfigFactory">>),
                    Array(<<"ConfigService">>)},
     useClass    : {Undefined, Class("YourConfigFactory")},
     useFactory  : {Undefined} \cup Factories,
     inject      : {Undefined, Array(<<>>), Array(<<"ConfigService">>)}]

\* The DynamicModule forRootAsync returns.
DynamicModuleOf(options) ==
    [module      |-> Class("SmartConfigModule"),
     imports     |-> Array(<<"HttpModule">>),
     controllers |-> Array(<<>>),
     providers   |-> <<Class("SmartConfigService"),
                       [provide    |-> "smartConfigOptions",
                        useFactory |-> options.useFactory,
                        inject     |-> options.useExisting]>>,
     exports     |-> Array(<<Class("SmartConfigService")>>),
     global      |-> TRUE]

NotBootstrapped ==
    [state |-> "none", called |-> FALSE, args |-> <<>>, error |-> Undefined]

forRootAsync ==
    /\ dynamicModule = Undefined
    /\ \E options \in AsyncOptions :
          /\ asyncOptions' = options
          /\ dynamicModule' = DynamicModuleOf(options)
    /\ UNCHANGED <<bootstrap, smartConfigOptions, configService, registry,
                   httpService, calls>>

\* The provider of 'smartConfigOptions' in a dynamic module.
OptionsProvider(module) == module.providers[2]

InstanceOf(token) == [t |-> "object", of |-> token]

\* The options of the README's factory: a public testnet.
FactoryOptions ==
    [environment |-> "testnet", network |-> "public",
     client_environment |-> "testnet", customNetwork |-> Undefined,
     smartRegistryUrl |-> Undefined]

\* useFactory(...args): the static factory ignores its arguments, the other
\* one calls get on its first argument.
CallFactory(useFactory, args) ==
    IF useFactory = Function("static")
    THEN Return(FactoryOptions)
    ELSE LET configService1 == IF Len(args) >= 1 THEN args[1] ELSE Undefined
         IN  IF configService1.t \in {"undefined", "null"}
             THEN Throw(TypeError("Cannot read properties of " \o configService1.t))
             ELSE IF configService1 # InstanceOf("ConfigService")
             THEN Throw(TypeError("configService.get is not a function"))
             ELSE Return(FactoryOptions)

\* The container instantiates the factory provider: it resolves the tokens of
\* the provider's inject (none when inject is undefined) among the providers
\* the application makes visible to the module, and calls useFactory with
\* their instances, in order.
Bootstrap ==
    /\ dynamicModule # Undefined
    /\ bootstrap = NotBootstrapped
    /\ OptionsProvider(dynamicModule).useFactory # Undefined
    /\ \E visible \in SUBSET Tokens :
          LET provider == OptionsProvider(dynamicModule)
              inject   == IF provider.inject = Undefined
                          THEN <<>> ELSE provider.inject.items
              args     == [i \in 1..Len(inject) |-> InstanceOf(inject[i])]
              options  == CallFactory(provider.useFactory, args)
          IN  IF \E i \in 1..Len(inject) : inject[i] \notin visible
              THEN /\ bootstrap' = [state |-> "failed", called |-> FALSE,
                                    args |-> <<>>,
                                    error |-> Error("Nest can't resolve dependencies")]
                   /\ UNCHANGED smartConfigOptions
              ELSE IF options.thrown
              THEN /\ bootstrap' = [state |-> "failed", called |-> TRUE,
                                    args |-> args, error |-> options.v]
                   /\ UNCHANGED smartConfigOptions
              ELSE /\ bootstrap' = [state |-> "resolved", called |-> TRUE,
                                    args |-> args, error |-> Undefined]
                   /\ smartConfigOptions' = options.v
    /\ UNCHANGED <<asyncOptions, dynamicModule, configService, registry,
                   httpService, calls>>

\* The service specifications start from a constructed service: its options
\* are given and the module that provided them is left out.
Constructed ==
    /\ asyncOptions = Undefined
    /\ dynamicModule = Undefined
    /\ bootstrap = NotBootstrapped

InitModule ==
    /\ asyncOptions = Undefined
    /\ dynamicModule = Undefined
    /\ bootstrap = NotBootstrapped
    /\ smartConfigOptions = Undefined
    /\ configService = [k \in Keys |-> Undefined]
    /\ registry = [u \in {} |-> Undefined]
    /\ httpService = <<>>
    /\ calls = <<>>

NextModule ==
    \/ forRootAsync
    \/ Bootstrap

SpecModule == InitModule /\ [][NextModule]_vars

----------------------------------------------------------------------------
(* The service: every accessor, over one option value for each way the      *)
(* resources are resolved, and a store with or without its keys.            *)

ThresholdPercent == 67

Stores ==
    {StoreWith(Keys, "testnet", ThresholdPercent),
     StoreWith({}, "testnet", ThresholdPercent)}

\* One option value for each outcome of the resolution: the registry, no
\* url, a table, a missing customNetwork, a missing table.
ServiceOptions ==
    {[environment |-> "testnet", network |-> "public",
      client_environment |-> "testnet", customNetwork |-> Undefined,
      smartRegistryUrl |-> Str(RegistryUrl)],
     [environment |-> "mainnet", network |-> "public",
      client_environment |-> "mainnet", customNetwork |-> FullCustomNetwork,
      smartRegistryUrl |-> Str("local")],
     [environment |-> "testnet", network |-> "private",
      client_environment |-> "mainnet", customNetwork |-> FullCustomNetwork,
      smartRegistryUrl |-> Str(RegistryUrl)],
     [environment |-> "mainnet", network |-> "private",
      client_environment |-> "mainnet", customNetwork |-> Undefined,
      smartRegistryUrl |-> Undefined],
     [environment |-> "testnet", network |-> "private",
      client_environment |-> "testnet",
      customNetwork |-> [FullCustomNetwork EXCEPT !.testnet = Undefined],
      smartRegistryUrl |-> Str(RegistryUrl)]}

Init ==
    /\ Constructed
    /\ smartConfigOptions \in ServiceOptions
    /\ configService \in Stores
    /\ registry \in Registries
    /\ httpService = <<>>
    /\ calls = <<>>

Next ==
    \/ getNodes
    \/ getUtilities
    \/ getFees
    \/ getThreshold
    \/ getEnvironment
    \/ getClientEnvironment
    \/ getIssuer
    \/ getOperator
    \/ getMirrorNode
    \/ \E r \in 1..Len(httpService) : HttpRespond(r)
    \/ \E i \in 1..Len(calls) : Resume(i)
    \/ \E i \in 1..Len(calls) : ResumeThreshold(i)

Spec == Init /\ [][Next]_vars

----------------------------------------------------------------------------
(* The three resource accessors alone, over every option value.            *)

InitResource ==
    /\ Constructed
    /\ smartConfigOptions \in Options
    /\ configService = StoreWith(Keys, "testnet", ThresholdPercent)
    /\ registry \in Registries
    /\ httpService = <<>>
    /\ calls = <<>>

NextResource ==
    \/ getNodes
    \/ getUtilities
    \/ getFees
    \/ \E r \in 1..Len(httpService) : HttpRespond(r)
    \/ \E i \in 1..Len(calls) : Resume(i)

SpecResource == InitResource /\ [][NextResource]_vars

----------------------------------------------------------------------------
(* Private networks whose customNetwork exists while any of its three       *)
(* entries may be missing: a table, undefined or null.                      *)

NetworkEntries(name, n) == {NetworkTable(name, n), Undefined, Null}

PartialCustomNetworks ==
    [t       : {"object"},
     testnet : NetworkEntries("custom.testnet", TestnetNodes),
     local   : NetworkEntries("custom.local", LocalNodes),
     mainnet : NetworkEntries("custom.mainnet", MainnetNodes)]

PrivateOptions ==
    [environment        : Environments,
     network            : {"private"},
     client_environment : ClientEnvironments,
     customNetwork      : PartialCustomNetworks,
     smartRegistryUrl   : SmartRegistryUrls]

InitPrivate ==
    /\ Constructed
    /\ smartConfigOptions \in PrivateOptions
    /\ configService = StoreWith(Keys, "testnet", ThresholdPercent)
    /\ registry \in Registries
    /\ httpService = <<>>
    /\ calls = <<>>

SpecPrivate == InitPrivate /\ [][NextResource]_vars

----------------------------------------------------------------------------
(* The threshold alone: every percentage and every node count, with the     *)
(* nodes taken from the custom table or from the registry.                  *)

MaxPercent == 100

\* A private network whose tables hold n nodes each.
CustomNetworkOf(n) ==
    [t       |-> "object",
     testnet |-> NetworkTable("custom.testnet", n),
     local   |-> NetworkTable("custom.local", n),
     mainnet |-> NetworkTable("custom.mainnet", n)]

ThresholdOptions(n) ==
    {[environment |-> "testnet", network |-> "private",
      client_environment |-> "testnet", customNetwork |-> CustomNetworkOf(n),
      smartRegistryUrl |-> Undefined],
     [environment |-> "testnet", network |-> "public",
      client_environment |-> "testnet", customNetwork |-> Undefined,
      smartRegistryUrl |-> Str(RegistryUrl)],
     [environment |-> "testnet", network |-> "public",
      client_environment |-> "testnet", customNetwork |-> Undefined,
      smartRegistryUrl |-> Undefined]}

ThresholdStores ==
    {StoreWith(Keys, "testnet", p) : p \in 0..MaxPercent}
        \cup {StoreWith(Keys \ {"clusterConfig.threshold"}, "testnet", 0)}

InitThreshold ==
    /\ Constructed
    /\ \E n \in 0..MaxNodes :
          /\ smartConfigOptions \in ThresholdOptions(n)
          /\ registry = RegistryServing(n)
    /\ configService \in ThresholdStores
    /\ httpService = <<>>
    /\ calls = <<>>

NextThreshold ==
    \/ getThreshold
    \/ \E r \in 1..Len(httpService) : HttpRespond(r)
    \/ \E i \in 1..Len(calls) : Resume(i)
    \/ \E i \in 1..Len(calls) : ResumeThreshold(i)

SpecThreshold == InitThreshold /\ [][NextThreshold]_vars

----------------------------------------------------------------------------
(* The accessors of the configuration store alone: every subset of the     *)
(* keys present.                                                           *)

InitStore ==
    /\ Constructed
    /\ smartConfigOptions =
          [environment |-> "testnet", network |-> "public",
           client_environment |-> "testnet", customNetwork |-> Undefined,
           smartRegistryUrl |-> Undefined]
    /\ configService \in
          {StoreWith(present, client, ThresholdPercent) :
              present \in SUBSET Keys, client \in {"testnet", "local"}}
    /\ registry = RegistryDegraded
    /\ httpService = <<>>
    /\ calls = <<>>

NextStore ==
    \/ getEnvironment
    \/ getClientEnvironment
    \/ getIssuer
    \/ getOperator
    \/ getMirrorNode

SpecStore == InitStore /\ [][NextStore]_vars

----------------------------------------------------------------------------
(* What the claims speak of. *)

ResourceOps == {"getNodes", "getUtilities", "getFees"}

KindOf(op) ==
    CASE op = "getNodes"     -> "nodes"
      [] op = "getUtilities" -> "utilities"
      [] op = "getFees"      -> "fees"

\* The calls of the three resource accessors, getThreshold's own call of
\* getNodes among them.
ResourceCalls == {i \in 1..Len(calls) : calls[i].op \in ResourceOps}

Resolved == getNetworkConfig(smartConfigOptions)

\* The resolved NetworkConfig is present, or absent (null or undefined).
ConfigPresent == ~Resolved.thrown /\ Truthy(Resolved.v)

ConfigAbsent == ~Resolved.thrown /\ ~Truthy(Resolved.v)

UrlSet == smartConfigOptions.smartRegistryUrl \notin {Undefined, Str("local")}

\* The url of the registry's resource of this kind.
UrlOf(kind) == smartConfigOptions.smartRegistryUrl.s \o "/network/" \o kind

\* The table the decision table names.
TableName(options) ==
    IF options.environment = "mainnet" THEN "mainnet"
    ELSE IF options.client_environment = "testnet" THEN "testnet" ELSE "local"

----------------------------------------------------------------------------
\* C1: with network = public, getNetworkConfig returns null, for both
\* environments, every client environment and whatever customNetwork holds.
C1_PublicResolvesToNull ==
    smartConfigOptions.network = "public" => Resolved = Return(Null)

\* A public network on mainnet with a full customNetwork, after a call.
C1_Witness ==
    /\ smartConfigOptions.network = "public"
    /\ smartConfigOptions.environment = "mainnet"
    /\ smartConfigOptions.customNetwork = FullCustomNetwork
    /\ Len(calls) > 0
    /\ calls[1].op = "getNodes"
    /\ calls[1].state = "rejected"

\* C2 as stated: with network = private, getNetworkConfig returns the table
\* the decision table names, for every option value.
C2_PrivateReturnsNamedTable ==
    (smartConfigOptions.network = "private" /\ ResourceCalls # {}) =>
        /\ ~Resolved.thrown
        /\ smartConfigOptions.customNetwork # Undefined
        /\ Resolved.v = smartConfigOptions.customNetwork[TableName(smartConfigOptions)]

\* C2 amended: with network = private and a customNetwork, getNetworkConfig
\* returns the table the decision table names (undefined when that table is
\* missing); without a customNetwork it throws a TypeError, with which the
\* resource accessors reject.
C2_PrivateReturnsNamedTableIfAny ==
    smartConfigOptions.network = "private" =>
        IF smartConfigOptions.customNetwork = Undefined
        THEN /\ Resolved.thrown
             /\ Resolved.v.t = "TypeError"
             /\ \A i \in ResourceCalls :
                   calls[i].state = "rejected" /\ calls[i].value = Resolved.v
        ELSE Resolved =
                Return(smartConfigOptions.customNetwork[TableName(smartConfigOptions)])

\* A private testnet with a mainnet client resolves to customNetwork.local.
C2_Witness ==
    /\ smartConfigOptions.network = "private"
    /\ smartConfigOptions.environment = "testnet"
    /\ smartConfigOptions.client_environment = "mainnet"
    /\ smartConfigOptions.customNetwork = FullCustomNetwork
    /\ Len(calls) > 0
    /\ calls[1].op = "getNodes"
    /\ calls[1].state = "fulfilled"
    /\ calls[1].value = FullCustomNetwork.local.nodes

\* C3: when the resolved NetworkConfig is present, each accessor resolves with
\* networkConfig[kind] and issues no request, whatever smartRegistryUrl is; a
\* fulfilled call's value comes from the table or from the call's own request,
\* never both.
C3_PresentConfigIsTheOnlySource ==
    /\ ConfigPresent =>
          /\ httpService = <<>>
          /\ \A i \in ResourceCalls :
                /\ calls[i].state = "fulfilled"
                /\ calls[i].req = 0
                /\ calls[i].value = Resolved.v[KindOf(calls[i].op)]
    /\ \A i \in ResourceCalls :
          calls[i].state = "fulfilled" =>
              IF calls[i].req = 0
              THEN ConfigPresent /\ calls[i].value = Resolved.v[KindOf(calls[i].op)]
              ELSE /\ ConfigAbsent
                   /\ calls[i].value = httpService[calls[i].req].response.data

\* A private mainnet with a registry url: getFees resolves with the table's
\* fees and no request was issued.
C3_Witness ==
    /\ ConfigPresent
    /\ UrlSet
    /\ Len(calls) = 2
    /\ calls[1].op = "getFees"
    /\ calls[1].value = FullCustomNetwork.mainnet.fees
    /\ calls[2].op = "getUtilities"
    /\ calls[2].state = "fulfilled"

\* C4: when the resolved NetworkConfig is absent and smartRegistryUrl is unset
\* or 'local', each accessor rejects with "Base URL not set" and no request is
\* issued.
C4_NoUrlRejects ==
    (ConfigAbsent /\ ~UrlSet) =>
        /\ httpService = <<>>
        /\ \A i \in ResourceCalls :
              /\ calls[i].state = "rejected"
              /\ calls[i].value.message = "Base URL not set"

\* The url is the literal 'local' and two accessors were rejected.
C4_Witness ==
    /\ ConfigAbsent
    /\ smartConfigOptions.smartRegistryUrl = Str("local")
    /\ Len(calls) = 2
    /\ calls[1].op = "getUtilities"
    /\ calls[1].state = "rejected"
    /\ calls[2].op = "getFees"
    /\ calls[2].state = "rejected"

\* C5: when the resolved NetworkConfig is absent and smartRegistryUrl is set
\* and not 'local', the accessor of a kind issues a GET to exactly
\* {smartRegistryUrl}/network/{kind}, and once the request has succeeded it
\* resolves with the body the registry serves there, unchanged.
C5_GetsItsKindFromTheRegistry ==
    (ConfigAbsent /\ UrlSet) =>
        \A i \in ResourceCalls :
            /\ calls[i].req \in 1..Len(httpService)
            /\ httpService[calls[i].req].method = "GET"
            /\ httpService[calls[i].req].url = UrlOf(KindOf(calls[i].op))
            /\ httpService[calls[i].req].state = "ok" =>
                  /\ calls[i].state \in {"pending", "fulfilled"}
                  /\ calls[i].state = "fulfilled" =>
                        calls[i].value = registry[UrlOf(KindOf(calls[i].op))].data

\* getFees and getUtilities resolved with the registry's fees and utilities.
C5_Witness ==
    /\ ConfigAbsent
    /\ Len(calls) = 2
    /\ calls[1].op = "getFees"
    /\ calls[1].state = "fulfilled"
    /\ calls[1].value = [t |-> "object", schedule |-> "registry"]
    /\ calls[2].op = "getUtilities"
    /\ calls[2].state = "fulfilled"

\* C6: when the request of a call that fell through to the registry fails, the
\* call rejects with that failure: it never resolves, and its promise is
\* settled once.
C6_FetchFailurePropagates ==
    \A i \in ResourceCalls :
        /\ calls[i].settles <= 1
        /\ (calls[i].state # "pending") = (calls[i].settles = 1)
        /\ (calls[i].req # 0 /\ httpService[calls[i].req].state = "failed") =>
              /\ calls[i].state \in {"pending", "rejected"}
              /\ calls[i].state = "rejected" =>
                    calls[i].value = httpService[calls[i].req].error

\* One call rejected with a status failure, another with a transport failure.
C6_Witness ==
    /\ Len(calls) = 2
    /\ calls[1].op = "getUtilities"
    /\ calls[1].state = "rejected"
    /\ calls[1].value = StatusError(500)
    /\ calls[2].op = "getNodes"
    /\ calls[2].state = "rejected"
    /\ calls[2].value = NetworkError

\* C10: no caching and no retry: the calls that fall through to the registry
\* and the requests issued are in one-to-one correspondence, whether earlier
\* calls succeeded or failed.
C10_OneRequestPerFallThrough ==
    LET through == IF ConfigAbsent /\ UrlSet THEN ResourceCalls ELSE {}
    IN  /\ Len(httpService) = Cardinality(through)
        /\ \A i \in through : calls[i].req \in 1..Len(httpService)
        /\ \A i, j \in through : calls[i].req = calls[j].req => i = j
        /\ \A i \in ResourceCalls \ through : calls[i].req = 0

\* A second getNodes after a first that succeeded: two requests.
C10_Witness ==
    /\ Len(calls) = 2
    /\ calls[1].op = "getNodes"
    /\ calls[1].state = "fulfilled"
    /\ calls[1].req = 1
    /\ calls[2].op = "getNodes"
    /\ calls[2].req = 2
    /\ Len(httpService) = 2

ThresholdCalls == {i \in 1..Len(calls) : calls[i].op = "getThreshold"}

Absent(key) == configService[key] = Undefined

\* C7: getThreshold resolves with ceil(nodeCount * percentage / 100), the least
\* integer k with 100 k >= nodeCount * percentage: 0 for no nodes, nodeCount
\* at 100 percent, 7 for 10 nodes at 67 percent.
C7_ThresholdIsCeiling ==
    \A i \in ThresholdCalls :
        (/\ calls[i].inner # 0
         /\ calls[calls[i].inner].state = "fulfilled"
         /\ calls[i].state # "pending") =>
            LET n == Len(calls[calls[i].inner].value.items)
                p == configService["clusterConfig.threshold"].n
                k == calls[i].value.n
            IN  /\ calls[i].state = "fulfilled"
                /\ DOMAIN calls[i].value = {"t", "n"}
                /\ k * 100 >= n * p
                /\ (k - 1) * 100 < n * p
                /\ n = 0 => k = 0
                /\ p = 100 => k = n
                /\ (n = 10 /\ p = 67) => k = 7

\* Ten nodes from the registry at 67 percent: the threshold is 7.
C7_Witness ==
    /\ configService["clusterConfig.threshold"] = Num(67)
    /\ Len(calls) = 2
    /\ calls[1].op = "getThreshold"
    /\ calls[1].state = "fulfilled"
    /\ calls[1].value = Num(7)
    /\ calls[2].req = 1
    /\ Len(calls[2].value.items) = 10

\* C8: getThreshold rejects when clusterConfig.threshold is absent, and when
\* getNodes rejects; it resolves only after getNodes has resolved.
C8_ThresholdFails ==
    \A i \in ThresholdCalls :
        /\ Absent("clusterConfig.threshold") => calls[i].state = "rejected"
        /\ calls[i].state = "fulfilled" =>
              /\ ~Absent("clusterConfig.threshold")
              /\ calls[i].inner # 0
              /\ calls[calls[i].inner].state = "fulfilled"
        /\ (/\ calls[i].inner # 0
            /\ calls[calls[i].inner].state = "rejected"
            /\ calls[i].state # "pending") => calls[i].state = "rejected"

\* The fetch of the nodes failed and getThreshold rejected with the failure.
C8_Witness ==
    /\ Len(calls) = 2
    /\ calls[1].op = "getThreshold"
    /\ calls[1].state = "rejected"
    /\ calls[2].op = "getNodes"
    /\ calls[2].state = "rejected"
    /\ calls[2].value = NetworkError
    /\ calls[1].value = NetworkError

RequestOf(i) ==
    IF calls[i].inner # 0 THEN calls[calls[i].inner].req ELSE calls[i].req

\* The registry answered the call's request, if it made one: the request did
\* not fail in transport.
Answered(i) == RequestOf(i) = 0 \/ httpService[RequestOf(i)].error # NetworkError

SettledAsIfAlone(i) ==
    LET c    == calls[i]
        kind == KindOf(c.op)
    IN  IF Resolved.thrown
        THEN c.state = "rejected" /\ c.value = Resolved.v /\ c.req = 0
        ELSE IF ConfigPresent
        THEN c.state = "fulfilled" /\ c.value = Resolved.v[kind] /\ c.req = 0
        ELSE IF ~UrlSet
        THEN c.state = "rejected" /\ c.value = Error("Base URL not set") /\ c.req = 0
        ELSE /\ c.req \in 1..Len(httpService)
             /\ httpService[c.req].url = UrlOf(kind)
             /\ \A j \in 1..Len(calls) : calls[j].req = c.req => j = i
             /\ IF httpService[c.req].state = "ok"
                THEN c.state = "fulfilled" /\ c.value = registry[UrlOf(kind)].data
                ELSE c.state = "rejected" /\ c.value = httpService[c.req].error

\* C12: concurrent getNodes / getUtilities / getFees calls do not interact:
\* under every interleaving of the calls, the responses and the continuations,
\* each call settles as it would alone, and once it has settled no step of
\* another call changes it.
C12_ConcurrentCallsDoNotInteract ==
    /\ [](\A i \in ResourceCalls : calls[i].state # "pending" => SettledAsIfAlone(i))
    /\ [][\A i \in 1..Len(calls) :
              calls[i].state # "pending" => calls'[i] = calls[i]]_vars

\* Responses out of order: getFees, called second, has resolved with the fees
\* while the request of getNodes, called first, is still in flight.
C12_Witness ==
    /\ Len(calls) = 2
    /\ calls[1].op = "getNodes"
    /\ calls[1].state = "pending"
    /\ httpService[calls[1].req].state = "inflight"
    /\ calls[2].op = "getFees"
    /\ calls[2].state = "fulfilled"
    /\ calls[2].value = [t |-> "object", schedule |-> "registry"]

\* C14: getThreshold reads clusterConfig.threshold before it resolves the
\* nodes: with the key absent every call has failed at once, getNodes was never
\* started and no request was issued, also when the NetworkConfig is absent and
\* smartRegistryUrl is set.
C14_ThresholdReadBeforeNodes ==
    Absent("clusterConfig.threshold") =>
        /\ httpService = <<>>
        /\ \A i \in 1..Len(calls) :
              /\ calls[i].op = "getThreshold"
              /\ calls[i].state = "rejected"
              /\ calls[i].inner = 0
              /\ calls[i].req = 0

\* The key is absent, the network is public and the registry url is set: a
\* getThreshold call has failed and no request exists.
C14_Witness ==
    /\ Absent("clusterConfig.threshold")
    /\ smartConfigOptions.network = "public"
    /\ smartConfigOptions.smartRegistryUrl = Str(RegistryUrl)
    /\ Len(calls) >= 1
    /\ calls[1].op = "getThreshold"
    /\ calls[1].state = "rejected"
    /\ httpService = <<>>

\* The customNetwork entry the decision table selects.
SelectedEntry == smartConfigOptions.customNetwork[TableName(smartConfigOptions)]

\* C15: on a private network whose customNetwork exists while the selected
\* entry is undefined or null, getNodes / getUtilities / getFees apply the
\* remote policy: each call issues its own GET to smartRegistryUrl +
\* '/network/' + kind when the url is set and not 'local', and otherwise
\* rejects with "Base URL not set" without a request.
C15_MissingEntryFallsThrough ==
    (/\ smartConfigOptions.network = "private"
     /\ smartConfigOptions.customNetwork.t = "object"
     /\ SelectedEntry \in {Undefined, Null}) =>
        IF UrlSet
        THEN /\ Len(httpService) = Cardinality(ResourceCalls)
             /\ \A i \in ResourceCalls :
                   /\ calls[i].req \in 1..Len(httpService)
                   /\ httpService[calls[i].req].method = "GET"
                   /\ httpService[calls[i].req].url = UrlOf(KindOf(calls[i].op))
                   /\ (calls[i].state = "fulfilled" =>
                          calls[i].value = httpService[calls[i].req].response.data)
        ELSE /\ httpService = <<>>
             /\ \A i \in ResourceCalls :
                   /\ calls[i].state = "rejected"
                   /\ calls[i].value = Error("Base URL not set")

\* customNetwork.local is undefined and selected, the other two tables exist:
\* getNodes resolved with the registry's nodes, and with the url unset in
\* another behaviour it rejects (C15_WitnessNoUrl).
C15_Witness ==
    /\ smartConfigOptions.environment = "testnet"
    /\ smartConfigOptions.client_environment = "mainnet"
    /\ smartConfigOptions.customNetwork =
           [FullCustomNetwork EXCEPT !.local = Undefined]
    /\ Len(calls) >= 1
    /\ calls[1].op = "getNodes"
    /\ calls[1].state = "fulfilled"
    /\ calls[1].value = Array(NodeList("registry", RegistryNodes))

\* customNetwork.mainnet is null and selected, the url is 'local': getFees
\* rejected.
C15_WitnessNoUrl ==
    /\ smartConfigOptions.environment = "mainnet"
    /\ smartConfigOptions.customNetwork.mainnet = Null
    /\ smartConfigOptions.smartRegistryUrl = Str("local")
    /\ Len(calls) >= 1
    /\ calls[1].op = "getFees"
    /\ calls[1].state = "rejected"

\* What the factory of the documented strategy is to receive: the instances
\* of the providers listed in options.inject, none when there is no list.
InjectedInstances ==
    IF asyncOptions.inject = Undefined
    THEN <<>>
    ELSE [i \in 1..Len(asyncOptions.inject.items) |->
             InstanceOf(asyncOptions.inject.items[i])]

\* C13: forRootAsync registers the 'smartConfigOptions' provider so that the
\* providers listed in options.inject are the arguments passed to
\* options.useFactory: the registered provider carries options.inject, and a
\* factory that was called received their instances.
C13_FactoryReceivesInjectedProviders ==
    /\ dynamicModule # Undefined =>
          OptionsProvider(dynamicModule).inject = asyncOptions.inject
    /\ bootstrap.called => bootstrap.args = InjectedInstances

\* The documented strategy, useFactory: (configService) => ..., inject:
\* [ConfigService]: the factory was called with no argument and threw.
C13_FactoryCalledWithoutProviders ==
    /\ asyncOptions # Undefined
    /\ asyncOptions.useFactory = Function("fromConfig")
    /\ asyncOptions.inject = Array(<<"ConfigService">>)
    /\ asyncOptions.useExisting = Undefined
    /\ bootstrap.called
    /\ bootstrap.args = <<>>
    /\ bootstrap.state = "failed"

====
